---- MODULE Spec2Model ----
(***************************************************************************)
(* A model of src/app.py: the phone canonicalizer (build_sa_variants), the *)
(* sequential phone lookup (phone_check), the sequential email probe       *)
(* (email_check), the concurrent username fan-out (username_check), the    *)
(* conversation that calls the three checks (build_app and its handlers),  *)
(* and two checks called at the same time by different callers.            *)
(*                                                                         *)
(* Text is modelled as a sequence of one-character strings.  A digit is    *)
(* what Python's \d matches; "u0660" stands for ARABIC-INDIC DIGIT ZERO,   *)
(* a digit that is not the ASCII character "0".                            *)
(***************************************************************************)
EXTENDS Integers, Sequences, FiniteSets, TLC

VARIABLES
    text,       \* build_sa_variants: the argument `text`
    variants,   \* build_sa_variants: the local list `variants` (before the filter)
    out,        \* build_sa_variants: the returned list `out`
    vpc,        \* "call" before build_sa_variants has run, "done" after
    raw,        \* phone_check: the argument `raw`
    p_pc,       \* phone_check: "idle", "start", "loop", "await", "done"
    p_variants, \* phone_check: the local list `variants`
    p_i,        \* phone_check: the position of the loop `for v in variants`
    p_client,   \* phone_check: the AsyncClient: "none", "open", "closed"
    p_reqs,     \* phone_check: the GET requests issued so far, in order
    p_replies,  \* phone_check: what came back for each request, in order
    p_result,   \* phone_check: the returned list, once p_pc = "done"
    p_decoded,  \* phone_check: the locals txt and used_encoding of the response read last
    email,      \* email_check: the argument `email`
    e_pc,       \* email_check: "idle", "start", "loop", "await", "done"
    e_i,        \* email_check: the position of the loop over EMAIL_ENDPOINTS
    e_client,   \* email_check: the AsyncClient: "none", "open", "closed"
    e_out,      \* email_check: the list `out` of result lines
    e_reqs,     \* email_check: the requests issued so far, in order
    e_last,     \* email_check: what the target processed last met, once it is processed
    e_odd,      \* email_check: how many targets answered other than PlainReply
    username,   \* username_check: the argument `username`
    file,       \* username_check: Link_all.txt: whether it can be read, and its lines
    u_pc,       \* username_check: "idle", "start", "gather", "done", "raised"
    u_client,   \* username_check: the AsyncClient: "none", "open", "closed"
    u_urls,     \* username_check: the URL of each task created, in order
    u_probe,    \* username_check: each _probe task: "created", "sent", "done"
    u_reply,    \* username_check: what each _probe task met
    u_results,  \* username_check: the list `results` returned by gather
    u_out,      \* username_check: the returned list, once u_pc = "done"
    u_odd,      \* username_check: how many probes met other than PlainReply
    c_state,    \* conversation: the state the ConversationHandler holds for the chat
    c_from,     \* conversation: the state the chat was in when the last update was dispatched
    c_handler,  \* conversation: the handler the last update was dispatched to
    c_pc,       \* conversation: "idle", or "await" while that handler awaits its check
    c_check,    \* conversation: the check that handler has started, "none" if none
    c_text,     \* conversation: the text, or callback data, of the last update
    c_reply     \* conversation: the messages that handler has sent, in order

vvars == <<text, variants, out, vpc>>

pvars == <<raw, p_pc, p_variants, p_i, p_client, p_reqs, p_replies, p_result, p_decoded>>

evars == <<email, e_pc, e_i, e_client, e_out, e_reqs, e_last, e_odd>>

uvars == <<username, file, u_pc, u_client, u_urls, u_probe, u_reply, u_results, u_out, u_odd>>

cvars == <<c_state, c_from, c_handler, c_pc, c_check, c_text, c_reply>>

vars == <<vvars, pvars, evars, uvars, cvars>>

----------------------------------------------------------------------------
(* The state in which a function is not being run *)

Reply(status, content) == [status |-> status, content |-> content]

Event(kind, r, exc) ==
    [kind |-> kind, status |-> r.status, content |-> r.content, exc |-> exc]

NoEvent == Event("none", Reply(0, ""), "")

\* no call of build_sa_variants under way
IdleVariants ==
    /\ text = <<>>
    /\ variants = <<>>
    /\ out = <<>>
    /\ vpc = "idle"

\* no phone_check under way
IdlePhone ==
    /\ raw = <<>>
    /\ p_pc = "idle"
    /\ p_variants = <<>>
    /\ p_i = 0
    /\ p_client = "none"
    /\ p_reqs = <<>>
    /\ p_replies = <<>>
    /\ p_result = <<>>
    /\ p_decoded = <<>>

\* no email_check under way
IdleEmail ==
    /\ email = <<>>
    /\ e_pc = "idle"
    /\ e_i = 0
    /\ e_client = "none"
    /\ e_out = <<>>
    /\ e_reqs = <<>>
    /\ e_last = NoEvent
    /\ e_odd = 0

\* line 67, and ConversationHandler.END of line 367
CHOOSING == 0
INPUT_EMAIL == 1
INPUT_PHONE == 2
INPUT_USER == 3
END == -1

\* no conversation with the chat, no handler under way
IdleConv ==
    /\ c_state = END
    /\ c_from = END
    /\ c_handler = "none"
    /\ c_pc = "idle"
    /\ c_check = "none"
    /\ c_text = ""
    /\ c_reply = <<>>

\* no username_check under way
IdleUser ==
    /\ username = ""
    /\ file = <<>>
    /\ u_pc = "idle"
    /\ u_client = "none"
    /\ u_urls = <<>>
    /\ u_probe = <<>>
    /\ u_reply = <<>>
    /\ u_results = <<>>
    /\ u_out = <<>>
    /\ u_odd = 0


----------------------------------------------------------------------------
(* Bounds of the model *)

\* the longest digit tail appended to a prefix to form an input of build_sa_variants
MaxBody == 9

\* the most targets of one email_check that answer other than with a plain page
MaxOddReplies == 2

\* the most templates in a well-formed Link_all.txt
MaxSites == 5

\* the most probes of one username_check that meet other than a plain page
MaxOddProbes == 2

----------------------------------------------------------------------------
(* Text helpers *)

AsciiDigits == {"0", "1", "2", "3", "4", "5", "6", "7", "8", "9"}

\* what re's \D does not match: the ASCII digits and the other Unicode decimal digits
IsDigit(c) == c \in AsciiDigits \cup {"u0660"}

StartsWith(s, p) == Len(s) >= Len(p) /\ SubSeq(s, 1, Len(p)) = p

Drop(s, n) == SubSeq(s, n + 1, Len(s))

\* str.lstrip("0")
RECURSIVE LStrip0(_)
LStrip0(s) == IF s # <<>> /\ s[1] = "0" THEN LStrip0(Tail(s)) ELSE s

\* re.sub(r"\D", "", s)
_digits(s) == SelectSeq(s, IsDigit)

CC == <<"9", "6", "6">>

MinLen == 8
MaxLen == 12

----------------------------------------------------------------------------
(* build_sa_variants *)

\* Normalized without the removal of a leading "00"
Normalized_Keep00(t) ==
    LET d == _digits(t)
    IN  d

\* lines 38-40: the digits of the input, less one leading "00"
Normalized(t) ==
    LET d == _digits(t)
    IN  IF StartsWith(d, <<"0", "0">>) THEN Drop(d, 2) ELSE d

\* lines 41-54: the list `variants` as generated, before the filter
GenVariants(t) ==
    LET d == Normalized(t)
    IN  IF StartsWith(d, CC)
        THEN LET rest == Drop(d, 3)
             IN  (IF rest # <<>>
                  THEN <<LStrip0(rest)>>
                       \o (IF rest[1] # "0" THEN <<(<<"0">> \o rest)>> ELSE <<>>)
                  ELSE <<>>)
                 \o <<CC \o rest>>
        ELSE LET core == LStrip0(d)
             IN  IF core # <<>>
                 THEN <<core, <<"0">> \o core, CC \o core>>
                 ELSE <<>>

\* KeepVariant with the upper length test written < instead of <=
KeepVariant_StrictMax(v, seen) ==
    v # <<>> /\ MinLen <= Len(v) /\ Len(v) < MaxLen /\ v \notin seen

\* KeepVariant without the lower length test
KeepVariant_NoMin(v, seen) == v # <<>> /\ Len(v) <= MaxLen /\ v \notin seen

\* line 58: the test a variant passes to be kept
KeepVariant(v, seen) == v # <<>> /\ MinLen <= Len(v) /\ Len(v) <= MaxLen /\ v \notin seen

\* lines 56-59: the loop over `variants` with the set `seen`
RECURSIVE FilterFrom(_, _, _, _)
FilterFrom(vs, i, seen, acc) ==
    IF i > Len(vs) THEN acc
    ELSE IF KeepVariant(vs[i], seen)
         THEN FilterFrom(vs, i + 1, seen \cup {vs[i]}, Append(acc, vs[i]))
         ELSE FilterFrom(vs, i + 1, seen, acc)

build_sa_variants(t) == FilterFrom(GenVariants(t), 1, {}, <<>>)

----------------------------------------------------------------------------
(* The inputs of build_sa_variants: a prefix followed by a tail of digits *)

Prefixes ==
    { <<>>,
      <<"+">>,
      <<"0">>,
      <<"0", "0">>,
      <<"+", "9", "6", "6">>,
      <<"0", "0", "9", "6", "6">>,
      <<"9", "6", "6">>,
      <<"+", "9", "6", "6", " ">>,
      <<"+", "9", "6", "6", "-", "0">>,
      <<"0", "9", "6", "6">>,
      <<"0", "0", "0">>,
      <<"a", "-">>,
      <<"u0660">> }

\* a tail may itself begin with the country code
Mids == { <<>>, CC }

BodyAlphabet == {"0", "5"}

Bodies == UNION { [1..n -> BodyAlphabet] : n \in 0..MaxBody }

Inputs == { p \o m \o b : p \in Prefixes, m \in Mids, b \in Bodies }

InitVariants ==
    /\ text \in Inputs
    /\ variants = <<>>
    /\ out = <<>>
    /\ vpc = "call"
    /\ IdlePhone
    /\ IdleEmail
    /\ IdleUser
    /\ IdleConv

\* one call of build_sa_variants(text)
BuildVariants ==
    /\ vpc = "call"
    /\ variants' = GenVariants(text)
    /\ out' = build_sa_variants(text)
    /\ vpc' = "done"
    /\ UNCHANGED text
    /\ UNCHANGED <<pvars, evars, uvars, cvars>>

NextVariants == BuildVariants

SpecVariants == InitVariants /\ [][NextVariants]_vars

----------------------------------------------------------------------------
(* HTTP responses of the caller-id endpoint                                 *)
(*                                                                          *)
(* A response is its declared encoding and its payload.  A payload is named *)
(* by the bytes it stands for; JsonOf, Decode and the three Capture         *)
(* operators say what r.json(), bytes.decode and the three regular          *)
(* expressions of extract_name_from_text give on those bytes.               *)

NoMatch == "<no match>"
NoName == "<None>"

\* JSON values: a string, a number, a boolean, a list, an object (its pairs in
\* order); JNone is Python's None and NotJson a body that json() cannot parse
JNone == [t |-> "none", s |-> "", n |-> 0, items |-> <<>>]
JStr(x) == [t |-> "str", s |-> x, n |-> 0, items |-> <<>>]
JNum(k) == [t |-> "num", s |-> "", n |-> k, items |-> <<>>]
JBool(b) == [t |-> "bool", s |-> "", n |-> IF b THEN 1 ELSE 0, items |-> <<>>]
JList == [t |-> "list", s |-> "", n |-> 0, items |-> <<>>]
JDict(pairs) == [t |-> "dict", s |-> "", n |-> 0, items |-> pairs]
NotJson == [t |-> "invalid", s |-> "", n |-> 0, items |-> <<>>]

\* r.json(): the parsed body, or NotJson when parsing raises
JsonOf(content) ==
    CASE content = "{name:Ali}" -> JDict(<< <<"name", JStr("Ali")>> >>)
      [] content = "{status:ok,data:{caller_name:Ali}}" ->
            JDict(<< <<"status", JStr("ok")>>,
                     <<"data", JDict(<< <<"caller_name", JStr("Ali")>> >>)>> >>)
      [] content = "{name:_,caller: Omar }" ->
            JDict(<< <<"name", JStr("  ")>>, <<"caller", JStr(" Omar ")>> >>)
      [] content = "{data:{caller:Zed}}" ->
            JDict(<< <<"data", JDict(<< <<"caller", JStr("Zed")>> >>)>> >>)
      [] content = "{status:ok}" -> JDict(<< <<"status", JStr("ok")>> >>)
      [] content = "[x]" -> JList
      [] content = "{IfExistsResult:1}" -> JDict(<< <<"IfExistsResult", JNum(1)>> >>)
      [] content = "{IfExistsResult:0}" -> JDict(<< <<"IfExistsResult", JNum(0)>> >>)
      [] content = "{valid:true,available:true}" ->
            JDict(<< <<"valid", JBool(TRUE)>>, <<"available", JBool(TRUE)>> >>)
      [] content = "{valid:true,available:false}" ->
            JDict(<< <<"valid", JBool(TRUE)>>, <<"available", JBool(FALSE)>> >>)
      [] content = "{errors:[x]}" -> JDict(<< <<"errors", JList>> >>)
      [] OTHER -> NotJson

KnownCodecs == {"utf-8", "cp1252", "cp1256", "windows-1256", "iso-8859-6", "latin-1"}

ArabicCodecs == {"cp1256", "windows-1256"}

\* raw.decode(enc, errors="replace"): the text, or "<LookupError>" for a codec
\* Python does not know.  Only the two Arabic payloads depend on the codec.
Decode(content, enc) ==
    IF enc \notin KnownCodecs THEN "<LookupError>"
    ELSE IF content = "label-utf8"
         THEN (IF enc = "utf-8" THEN "label: Mohammed Ahmed" ELSE "garbled")
    ELSE IF content = "label-cp1256"
         THEN (IF enc \in ArabicCodecs THEN "label: Mohammed Ahmed" ELSE "garbled")
    ELSE content

\* EncOrder with utf-8 tried before the declared encoding
EncOrder_Utf8First(r) ==
    <<"utf-8">>
        \o (IF r.encoding # "" THEN <<r.encoding>> ELSE <<>>)
        \o <<"cp1256", "windows-1256", "iso-8859-6">>

\* lines 16-19: the encodings tried, in order
EncOrder(r) ==
    (IF r.encoding # "" THEN <<r.encoding>> ELSE <<>>)
        \o <<"utf-8", "cp1256", "windows-1256", "iso-8859-6">>

\* lines 21-26: the first encoding of the list, from position i, that decodes
RECURSIVE DecodeFrom(_, _, _)
DecodeFrom(r, order, i) ==
    IF i > Len(order)
    THEN <<Decode(r.content, "utf-8"), IF r.encoding # "" THEN r.encoding ELSE "unknown">>
    ELSE IF Decode(r.content, order[i]) # "<LookupError>"
         THEN <<Decode(r.content, order[i]), order[i]>>
         ELSE DecodeFrom(r, order, i + 1)

\* _best_decode(resp): <<text, used encoding>>
_best_decode(r) == DecodeFrom(r, EncOrder(r), 1)

\* str.strip()
Strip(x) ==
    CASE x = "  " -> ""
      [] x = " Omar " -> "Omar"
      [] x = " user@officeapps.live " -> "user@officeapps.live"
      [] x = " 0501234567 " -> "0501234567"
      [] x = " @john " -> "@john"
      [] OTHER -> x

\* line 199: "name"\s*:\s*"([^"]+)"
Capture1(txt) ==
    CASE txt = "{name:Ali}" -> "Ali"
      [] txt = "{name:_,caller: Omar }" -> "  "
      [] txt = "cb({name:\\u0041li})" -> "\\u0041li"
      [] OTHER -> NoMatch

\* line 202: (?:label|name)\s*[:\-]\s*([^\n\r<]{3,60})
Capture2(txt) ==
    CASE txt = "label: Mohammed Ahmed" -> "Mohammed Ahmed"
      [] OTHER -> NoMatch

\* line 205: >(label|name)\s*</td>\s*<td>\s*([^<]{3,60})
Capture3(txt) ==
    CASE txt = "<td>name</td><td>Sara</td>" -> "Sara"
      [] OTHER -> NoMatch

\* lines 197-207
extract_name_from_text(txt) ==
    IF Capture1(txt) # NoMatch THEN Strip(Capture1(txt))
    ELSE IF Capture2(txt) # NoMatch THEN Strip(Capture2(txt))
    ELSE IF Capture3(txt) # NoMatch THEN Strip(Capture3(txt))
    ELSE NoName

HasKey(items, k) == \E n \in 1..Len(items) : items[n][1] = k

\* dict.get(k)
Get(items, k) ==
    IF HasKey(items, k)
    THEN items[CHOOSE n \in 1..Len(items) : items[n][1] = k][2]
    ELSE JNone

\* isinstance(v, str) and v.strip()
IsNameStr(v) == v.t = "str" /\ Strip(v.s) # ""

TopKeys == <<"name", "Name", "callerName", "caller_name", "caller">>
NestedKeys == <<"name", "Name", "callerName", "caller_name">>

\* the first key of `keys`, from position n, under which `items` holds a name
RECURSIVE FirstName(_, _, _)
FirstName(items, keys, n) ==
    IF n > Len(keys) THEN NoName
    ELSE IF IsNameStr(Get(items, keys[n])) THEN Strip(Get(items, keys[n]).s)
    ELSE FirstName(items, keys, n + 1)

\* lines 236-241: the first nested object, from position n, that holds a name
RECURSIVE NestedName(_, _)
NestedName(items, n) ==
    IF n > Len(items) THEN NoName
    ELSE IF items[n][2].t = "dict" /\ FirstName(items[n][2].items, NestedKeys, 1) # NoName
         THEN FirstName(items[n][2].items, NestedKeys, 1)
         ELSE NestedName(items, n + 1)

\* lines 228-243: the JSON path
JsonName(r) ==
    LET j == JsonOf(r.content)
    IN  IF j.t # "dict" THEN NoName
        ELSE IF FirstName(j.items, TopKeys, 1) # NoName
             THEN FirstName(j.items, TopKeys, 1)
             ELSE NestedName(j.items, 1)

\* lines 249-252: json.loads of a name that holds an escaped code point
Unescape(name) == IF name = "\\u0041li" THEN "Ali" ELSE name

\* lines 226-253: the name a response yields, NoName when it yields none
NameOf(r) ==
    LET viaJson == JsonName(r)
        found == IF viaJson # NoName THEN viaJson
                 ELSE extract_name_from_text(_best_decode(r)[1])
    IN  IF found = NoName \/ found = "" THEN NoName ELSE Unescape(found)

----------------------------------------------------------------------------
(* phone_check *)

Resp(enc, content) == [encoding |-> enc, content |-> content]

\* the responses the caller-id endpoint may give to one request
PhoneResponses ==
    { Resp("utf-8", "{name:Ali}"),
      Resp("utf-8", "{status:ok,data:{caller_name:Ali}}"),
      Resp("utf-8", "{name:_,caller: Omar }"),
      Resp("utf-8", "{data:{caller:Zed}}"),
      Resp("utf-8", "{status:ok}"),
      Resp("utf-8", "[x]"),
      Resp("", "label-utf8"),
      Resp("bogus", "label-utf8"),
      Resp("cp1256", "label-cp1256"),
      Resp("", "label-cp1256"),
      Resp("", "<td>name</td><td>Sara</td>"),
      Resp("utf-8", "cb({name:\\u0041li})"),
      Resp("", "no result") }

\* what came back for a request whose await raised (line 224)
TransportError == [encoding |-> "", content |-> "<exception>"]

Local9 == <<"5", "0", "1", "2", "3", "4", "5", "6", "7">>

\* the arguments of phone_check
PhoneInputs ==
    { <<>>,
      <<"a", "-">>,
      CC,
      <<"+", "9", "6", "6">> \o Local9,
      <<"0">> \o Local9,
      <<"+", "9", "6", "6", "0">> \o Local9,
      SubSeq(Local9, 1, 7) }

InitPhone ==
    /\ IdleVariants
    /\ raw \in PhoneInputs
    /\ p_pc = "start"
    /\ p_variants = <<>>
    /\ p_i = 0
    /\ p_client = "none"
    /\ p_reqs = <<>>
    /\ p_replies = <<>>
    /\ p_result = <<>>
    /\ p_decoded = <<>>
    /\ IdleEmail
    /\ IdleUser
    /\ IdleConv

\* PhoneNoVariants with the emptiness test made inside the `async with`
PhoneNoVariants_InsideClient ==
    /\ p_pc = "start"
    /\ build_sa_variants(raw) = <<>>
    /\ p_variants' = <<>>
    /\ p_result' = <<>>
    /\ p_client' = "closed"
    /\ p_pc' = "done"
    /\ UNCHANGED <<raw, p_i, p_reqs, p_replies, p_decoded>>
    /\ UNCHANGED <<vvars, evars, uvars, cvars>>

\* lines 210-212: no variant, return [] before any client exists
PhoneNoVariants ==
    /\ p_pc = "start"
    /\ build_sa_variants(raw) = <<>>
    /\ p_variants' = <<>>
    /\ p_result' = <<>>
    /\ p_pc' = "done"
    /\ UNCHANGED <<raw, p_i, p_client, p_reqs, p_replies, p_decoded>>
    /\ UNCHANGED <<vvars, evars, uvars, cvars>>

\* lines 210-219: variants exist, the client is opened and the loop entered
PhoneOpen ==
    /\ p_pc = "start"
    /\ build_sa_variants(raw) # <<>>
    /\ p_variants' = build_sa_variants(raw)
    /\ p_client' = "open"
    /\ p_i' = 1
    /\ p_pc' = "loop"
    /\ UNCHANGED <<raw, p_reqs, p_replies, p_result, p_decoded>>
    /\ UNCHANGED <<vvars, evars, uvars, cvars>>

\* lines 220-223: the GET for the next variant is sent and awaited
PhoneRequest ==
    /\ p_pc = "loop"
    /\ p_i <= Len(p_variants)
    /\ p_reqs' = Append(p_reqs, [number |-> p_variants[p_i], cc |-> "SA"])
    /\ p_pc' = "await"
    /\ UNCHANGED <<raw, p_variants, p_i, p_client, p_replies, p_result, p_decoded>>
    /\ UNCHANGED <<vvars, evars, uvars, cvars>>

\* PhoneRaise where the exception ends the check with an empty result
PhoneRaise_Return ==
    /\ p_pc = "await"
    /\ p_replies' = Append(p_replies, TransportError)
    /\ p_client' = "closed"
    /\ p_result' = <<>>
    /\ p_pc' = "done"
    /\ UNCHANGED <<raw, p_variants, p_i, p_reqs, p_decoded>>
    /\ UNCHANGED <<vvars, evars, uvars, cvars>>

\* lines 224-225: the await raised, continue with the next variant
PhoneRaise ==
    /\ p_pc = "await"
    /\ p_replies' = Append(p_replies, TransportError)
    /\ p_i' = p_i + 1
    /\ p_pc' = "loop"
    /\ UNCHANGED <<raw, p_variants, p_client, p_reqs, p_result, p_decoded>>
    /\ UNCHANGED <<vvars, evars, uvars, cvars>>

\* PhoneHit returning the name with the client left open
PhoneHit_ClientLeftOpen(r) ==
    /\ p_pc = "await"
    /\ NameOf(r) # NoName
    /\ p_replies' = Append(p_replies, r)
    /\ p_result' = <<NameOf(r)>>
    /\ p_pc' = "done"
    /\ p_decoded' = _best_decode(r)
    /\ UNCHANGED <<raw, p_variants, p_i, p_reqs, p_client>>
    /\ UNCHANGED <<vvars, evars, uvars, cvars>>

\* PhoneHit collecting the name and going on with the next variant
PhoneHit_NoReturn(r) ==
    /\ p_pc = "await"
    /\ NameOf(r) # NoName
    /\ p_replies' = Append(p_replies, r)
    /\ p_result' = Append(p_result, NameOf(r))
    /\ p_i' = p_i + 1
    /\ p_pc' = "loop"
    /\ p_decoded' = _best_decode(r)
    /\ UNCHANGED <<raw, p_variants, p_client, p_reqs>>
    /\ UNCHANGED <<vvars, evars, uvars, cvars>>

\* lines 226-253, a response that yields a name: return it, leaving the `async with`
PhoneHit(r) ==
    /\ p_pc = "await"
    /\ NameOf(r) # NoName
    /\ p_replies' = Append(p_replies, r)
    /\ p_result' = <<NameOf(r)>>
    /\ p_client' = "closed"
    /\ p_pc' = "done"
    /\ p_decoded' = _best_decode(r)
    /\ UNCHANGED <<raw, p_variants, p_i, p_reqs>>
    /\ UNCHANGED <<vvars, evars, uvars, cvars>>

\* lines 226-247, a response that yields no name: next variant
PhoneMiss(r) ==
    /\ p_pc = "await"
    /\ NameOf(r) = NoName
    /\ p_replies' = Append(p_replies, r)
    /\ p_i' = p_i + 1
    /\ p_pc' = "loop"
    /\ p_decoded' = _best_decode(r)
    /\ UNCHANGED <<raw, p_variants, p_client, p_reqs, p_result>>
    /\ UNCHANGED <<vvars, evars, uvars, cvars>>

\* line 254: the loop is exhausted, the client closed, [] returned
PhoneExhausted ==
    /\ p_pc = "loop"
    /\ p_i > Len(p_variants)
    /\ p_client' = "closed"
    /\ p_result' = <<>>
    /\ p_pc' = "done"
    /\ UNCHANGED <<raw, p_variants, p_i, p_reqs, p_replies, p_decoded>>
    /\ UNCHANGED <<vvars, evars, uvars, cvars>>

NextPhone ==
    \/ PhoneNoVariants
    \/ PhoneOpen
    \/ PhoneRequest
    \/ PhoneRaise
    \/ \E r \in PhoneResponses : PhoneHit(r)
    \/ \E r \in PhoneResponses : PhoneMiss(r)
    \/ PhoneExhausted

SpecPhone == InitPhone /\ [][NextPhone]_vars

----------------------------------------------------------------------------
(* Response bodies as text                                                  *)
(*                                                                          *)
(* A body is a sequence of tokens, each a run of characters; "<pad>" is a   *)
(* run of filler that ends five characters before the cap of the slice      *)
(* [:2000].  `h in text` is modelled on tokens: a hint is in a text when it *)
(* is one of its tokens or lies inside one.                                 *)

TextCap == 2000

TokLen(tok) == IF tok = "<pad>" THEN TextCap - 5 ELSE Len(tok)

\* r.text: the decoded body, or <<"<raises>">> when decoding raises
TextOf(content) ==
    CASE content = "Welcome" -> <<"Welcome">>
      [] content = "User Not Found" -> <<"User Not Found">>
      [] content = "Error 404" -> <<"Error ", "404">>
      [] content = "No Account" -> <<"No Account">>
      [] content = "pad+Not Found" -> <<"<pad>", "Not Found">>
      [] content = "<unreadable>" -> <<"<raises>">>
      [] OTHER -> <<content>>

\* str.lower()
LowerTok(tok) ==
    CASE tok = "Welcome" -> "welcome"
      [] tok = "User Not Found" -> "user not found"
      [] tok = "Not Found" -> "not found"
      [] tok = "Error " -> "error "
      [] tok = "No Account" -> "no account"
      [] OTHER -> tok

Lower(toks) == [n \in 1..Len(toks) |-> LowerTok(toks[n])]

\* s[:cap]: the tokens that end within the first `cap` characters; a token that
\* crosses the cap is cut, and what is left of it is "<cut>"
RECURSIVE SliceFrom(_, _, _, _)
SliceFrom(toks, n, used, cap) ==
    IF n > Len(toks) \/ used >= cap THEN <<>>
    ELSE IF used + TokLen(toks[n]) <= cap
         THEN <<toks[n]>> \o SliceFrom(toks, n + 1, used + TokLen(toks[n]), cap)
         ELSE <<"<cut>">>

Slice(toks, cap) == SliceFrom(toks, 1, 0, cap)

\* lines 156-160 and 294-298: r.text.lower()[:2000], "" when r.text raises
LoweredText(r) ==
    IF TextOf(r.content) = <<"<raises>">> THEN <<>>
    ELSE Slice(Lower(TextOf(r.content)), TextCap)

\* h in tok, for one token
InToken(h, tok) ==
    \/ h = tok
    \/ h = "not found" /\ tok \in {"user not found", "page not found"}

\* h in text
Contains(toks, h) == \E n \in 1..Len(toks) : InToken(h, toks[n])

\* lines 69-72; "couldn(U+2019)t find" is the hint written with a typographic apostrophe
NEGATIVE_HINTS ==
    <<"not found", "doesn't exist", "page not found", "404",
      "sorry, this page isn't available", "user not found", "couldn(U+2019)t find",
      "couldn't find", "no such user", "profile is unavailable">>

\* line 180: the hints of the generic e-mail rule
EmailHints ==
    <<"invalid email", "no account", "not found", "does not exist", "unknown email">>

\* any(h in text for h in hints)
AnyHint(toks, hints) == \E n \in 1..Len(hints) : Contains(toks, hints[n])

----------------------------------------------------------------------------
(* email_check                                                              *)
(*                                                                          *)
(* A URL is a sequence of tokens; every fragment the code looks for with    *)
(* `in` is one token, and "{email}" is the substitution slot.  An e-mail    *)
(* address is a sequence of tokens too, so that an address may itself hold  *)
(* a fragment.  A result line is a record: the site it names, the verdict   *)
(* its text stands for, the rule that worded it, and the status code or the *)
(* exception type it carries.                                               *)

Endpoint(site, method, url) == [site |-> site, method |-> method, url |-> url]

\* lines 98-112
EMAIL_ENDPOINTS ==
    << Endpoint("Microsoft (officeapps.live)", "GET",
           <<"https://odc.", "officeapps.live",
             ".com/odc/emailhrd/getidp?hm=0&emailAddress=", "{email}">>),
       Endpoint("Twitter", "GET",
           <<"https://", "twitter.com/users/email_available", "?email=", "{email}">>),
       Endpoint("TikTok (mobile)", "GET",
           <<"https://api16-normal-c-alisg.tiktokv.com/passport/email/send_code/v1/">>),
       Endpoint("Instagram (recovery)", "POST",
           <<"https://www.", "instagram.com", "/accounts/account_recovery_send_ajax/">>),
       Endpoint("SoundCloud (reset)", "GET",
           <<"https://api-mobile.soundcloud.com/users/passwords/reset?client_id=..&email=",
             "{email}">>),
       Endpoint("Noon (reset)", "POST",
           <<"https://www.", "noon.com", "/_svc/customer-v1/auth/reset_password">>),
       Endpoint("ACAPS (password)", "POST",
           <<"https://www.", "acaps.org", "/user/password">>),
       Endpoint("Vimeo (forgot)", "POST",
           <<"https://", "vimeo.com", "/forgot_password">>),
       Endpoint("NewsAPI (reset)", "POST",
           <<"https://", "newsapi.org/reset-password">>),
       Endpoint("NewsAPI (home)", "GET", <<"https://newsapi.org">>),
       Endpoint("DarkwebID (login)", "GET", <<"https://secure.darkwebid.com/user/login">>),
       Endpoint("Snapchat (accounts)", "GET", <<"https://accounts.snapchat.com">>),
       Endpoint("Snapchat (merlin login)", "POST",
           <<"https://accounts.", "snapchat.com/accounts/merlin/login">>) >>

\* frag in url
HasFragment(url, frag) == \E n \in 1..Len(url) : url[n] = frag

\* lines 120-123: url.format(email=email) when the url has the slot
RECURSIVE FormatUrl(_, _)
FormatUrl(url, addr) ==
    IF url = <<>> THEN <<>>
    ELSE (IF Head(url) = "{email}" THEN addr ELSE <<Head(url)>>)
             \o FormatUrl(Tail(url), addr)

\* Skipped that skips TikTok alone
Skipped_TikTokOnly(ep, url_fmt) == ep.site = "TikTok (mobile)"

\* lines 124-127 and 128-151: the target is skipped, no request is made for it
Skipped(ep, url_fmt) ==
    \/ ep.site = "TikTok (mobile)"
    \/ /\ ep.method # "GET"
       /\ ~HasFragment(url_fmt, "instagram.com")
       /\ ~HasFragment(url_fmt, "noon.com")
       /\ ~HasFragment(url_fmt, "acaps.org")
       /\ ~HasFragment(url_fmt, "vimeo.com")
       /\ ~HasFragment(url_fmt, "newsapi.org/reset-password")
       /\ HasFragment(url_fmt, "snapchat.com/accounts/merlin/login")

Request(ep, url_fmt, body, headers) ==
    [site |-> ep.site, method |-> ep.method, url |-> url_fmt,
     body |-> body, headers |-> headers]

\* lines 128-153: the request made for a target that is not skipped
RequestFor(ep, url_fmt) ==
    IF ep.method = "GET" THEN Request(ep, url_fmt, "", "User-Agent")
    ELSE IF HasFragment(url_fmt, "instagram.com")
         THEN Request(ep, url_fmt, "form:email_or_username", "X-Requested-With,User-Agent")
    ELSE IF HasFragment(url_fmt, "noon.com")
         THEN Request(ep, url_fmt, "json:email", "Content-Type")
    ELSE IF HasFragment(url_fmt, "acaps.org")
         THEN Request(ep, url_fmt, "form:name", "")
    ELSE IF HasFragment(url_fmt, "vimeo.com")
         THEN Request(ep, url_fmt, "form:email", "")
    ELSE IF HasFragment(url_fmt, "newsapi.org/reset-password")
         THEN Request(ep, url_fmt, "form:email", "")
    ELSE Request(ep, url_fmt, "form:empty", "")

Line(site, verdict, rule, status, exc) ==
    [site |-> site, verdict |-> verdict, rule |-> rule, status |-> status, exc |-> exc]

\* bool(v)
Truthy(v) ==
    \/ v.t \in {"num", "bool"} /\ v.n # 0
    \/ v.t = "str" /\ v.s # ""
    \/ v.t = "list"
    \/ v.t = "dict" /\ v.items # <<>>

\* lines 163-170
MicrosoftRule(site, r) ==
    LET j == JsonOf(r.content)
        v == Get(j.items, "IfExistsResult")
    IN  IF j.t # "dict" THEN Line(site, "INCONCLUSIVE", "Microsoft", r.status, "")
        ELSE IF v.t \in {"num", "bool"} /\ v.n \in {1, 2}
             THEN Line(site, "EXISTS", "Microsoft", 0, "")
             ELSE Line(site, "ABSENT", "Microsoft", 0, "")

\* lines 172-177
TwitterRule(site, r) ==
    LET j == JsonOf(r.content)
    IN  IF j.t # "dict" THEN Line(site, "INCONCLUSIVE", "Twitter", r.status, "")
        ELSE IF Truthy(Get(j.items, "valid")) /\ Truthy(Get(j.items, "available"))
             THEN Line(site, "ABSENT", "Twitter", 0, "")
             ELSE Line(site, "EXISTS", "Twitter", 0, "")

\* GenericRule with the status test widened to every status below 500
GenericRule_Below500(site, r) ==
    IF r.status < 500 /\ ~AnyHint(LoweredText(r), EmailHints)
    THEN Line(site, "EXISTS", "generic", 0, "")
    ELSE Line(site, "ABSENT", "generic", 0, "")

\* lines 179-181
GenericRule(site, r) ==
    IF r.status < 400 /\ ~AnyHint(LoweredText(r), EmailHints)
    THEN Line(site, "EXISTS", "generic", 0, "")
    ELSE Line(site, "ABSENT", "generic", 0, "")

\* lines 154-182: the line recorded for a response
Classify(site, url_fmt, r) ==
    IF HasFragment(url_fmt, "officeapps.live") THEN MicrosoftRule(site, r)
    ELSE IF HasFragment(url_fmt, "twitter.com/users/email_available")
         THEN TwitterRule(site, r)
    ELSE GenericRule(site, r)

\* the reply of a target that answers 200 with an unremarkable page
PlainReply == Reply(200, "Welcome")

\* the responses a target may give to one request
EmailReplies ==
    { PlainReply,
      Reply(200, "User Not Found"),
      Reply(200, "Error 404"),
      Reply(200, "No Account"),
      Reply(200, "pad+Not Found"),
      Reply(200, "<unreadable>"),
      Reply(404, "Welcome"),
      Reply(200, "{IfExistsResult:1}"),
      Reply(200, "{IfExistsResult:0}"),
      Reply(200, "{valid:true,available:true}"),
      Reply(200, "{valid:true,available:false}"),
      Reply(429, "{errors:[x]}"),
      Reply(200, "[x]") }

\* the exceptions an awaited request may raise
EmailExceptions == {"ConnectTimeout", "ConnectError"}

\* the arguments of email_check; the second address holds a fragment that the
\* classifier looks for in the formatted URL
EmailInputs == { <<"user@example.com">>, <<"user@", "officeapps.live">> }

InitEmail ==
    /\ IdleVariants
    /\ IdlePhone
    /\ IdleUser
    /\ IdleConv
    /\ email \in EmailInputs
    /\ e_pc = "start"
    /\ e_i = 0
    /\ e_client = "none"
    /\ e_out = <<>>
    /\ e_reqs = <<>>
    /\ e_last = NoEvent
    /\ e_odd = 0

CurrentEndpoint == EMAIL_ENDPOINTS[e_i]

CurrentUrl == FormatUrl(CurrentEndpoint.url, email)

\* lines 115-118: the client is opened and the loop over the table entered
EmailOpen ==
    /\ e_pc = "start"
    /\ e_client' = "open"
    /\ e_i' = 1
    /\ e_pc' = "loop"
    /\ UNCHANGED <<email, e_out, e_reqs, e_last, e_odd>>
    /\ UNCHANGED <<vvars, pvars, uvars, cvars>>

\* lines 124-127, 149-151: a SKIPPED line, then `continue`
EmailSkip ==
    /\ e_pc = "loop"
    /\ e_i <= Len(EMAIL_ENDPOINTS)
    /\ Skipped(CurrentEndpoint, CurrentUrl)
    /\ e_out' = Append(e_out, Line(CurrentEndpoint.site, "SKIPPED", "", 0, ""))
    /\ e_last' = Event("skip", Reply(0, ""), "")
    /\ e_i' = e_i + 1
    /\ UNCHANGED <<email, e_pc, e_client, e_reqs, e_odd>>
    /\ UNCHANGED <<vvars, pvars, uvars, cvars>>

\* lines 128-153: the request of the current target is sent and awaited
EmailSend ==
    /\ e_pc = "loop"
    /\ e_i <= Len(EMAIL_ENDPOINTS)
    /\ ~Skipped(CurrentEndpoint, CurrentUrl)
    /\ e_reqs' = Append(e_reqs, RequestFor(CurrentEndpoint, CurrentUrl))
    /\ e_last' = NoEvent
    /\ e_pc' = "await"
    /\ UNCHANGED <<email, e_i, e_client, e_out, e_odd>>
    /\ UNCHANGED <<vvars, pvars, uvars, cvars>>

\* EmailRaise letting the exception end the loop
EmailRaise_Abort(x) ==
    /\ e_pc = "await"
    /\ e_odd < MaxOddReplies
    /\ e_odd' = e_odd + 1
    /\ e_last' = Event("raise", Reply(0, ""), x)
    /\ e_i' = Len(EMAIL_ENDPOINTS) + 1
    /\ e_pc' = "loop"
    /\ UNCHANGED <<email, e_client, e_reqs, e_out>>
    /\ UNCHANGED <<vvars, pvars, uvars, cvars>>

\* lines 183-184: the await raised, an ERROR line names the exception type
EmailRaise(x) ==
    /\ e_pc = "await"
    /\ e_odd < MaxOddReplies
    /\ e_odd' = e_odd + 1
    /\ e_out' = Append(e_out, Line(CurrentEndpoint.site, "ERROR", "", 0, x))
    /\ e_last' = Event("raise", Reply(0, ""), x)
    /\ e_i' = e_i + 1
    /\ e_pc' = "loop"
    /\ UNCHANGED <<email, e_client, e_reqs>>
    /\ UNCHANGED <<vvars, pvars, uvars, cvars>>

\* lines 154-182: a response arrived, its line is recorded
EmailReply(r) ==
    /\ e_pc = "await"
    /\ r = PlainReply \/ e_odd < MaxOddReplies
    /\ e_odd' = IF r = PlainReply THEN e_odd ELSE e_odd + 1
    /\ e_out' = Append(e_out, Classify(CurrentEndpoint.site, CurrentUrl, r))
    /\ e_last' = Event("reply", r, "")
    /\ e_i' = e_i + 1
    /\ e_pc' = "loop"
    /\ UNCHANGED <<email, e_client, e_reqs>>
    /\ UNCHANGED <<vvars, pvars, uvars, cvars>>

\* line 185: the table is exhausted, the client closed, `out` returned
EmailReturn ==
    /\ e_pc = "loop"
    /\ e_i > Len(EMAIL_ENDPOINTS)
    /\ e_client' = "closed"
    /\ e_pc' = "done"
    /\ UNCHANGED <<email, e_i, e_out, e_reqs, e_last, e_odd>>
    /\ UNCHANGED <<vvars, pvars, uvars, cvars>>

NextEmail ==
    \/ EmailOpen
    \/ EmailSkip
    \/ EmailSend
    \/ \E x \in EmailExceptions : EmailRaise(x)
    \/ \E r \in EmailReplies : EmailReply(r)
    \/ EmailReturn

SpecEmail == InitEmail /\ [][NextEmail]_vars

----------------------------------------------------------------------------
(* username_check                                                           *)
(*                                                                          *)
(* A line of Link_all.txt is a sequence of tokens: " " is leading white     *)
(* space, "#" the comment sign, "\n" the line end, "{}" the substitution    *)
(* slot, "/" the first slash after the host.  A result line is a record of  *)
(* its kind and of the URL or host it shows.                                *)

\* normalize_username, lines 77-80: strip, then drop one leading "@"
normalize_username(s) ==
    CASE s = "@john" -> "john"
      [] s = " john " -> "john"
      [] s = "@@john" -> "@john"
      [] s = "@jo" -> "jo"
      [] OTHER -> s

UserInputs == {"@john", "@@john"}

SiteHosts ==
    <<"github.com", "www.instagram.com", "t.me", "x.com", "reddit.com",
      "gitlab.com", "medium.com", "vimeo.com">>

SiteLine(n) == <<"https://", SiteHosts[n], "/", "{}", "\n">>

FileOf(lines) == [readable |-> TRUE, lines |-> lines]

\* a file that open() cannot read
NoFile == [readable |-> FALSE, lines |-> <<>>]

\* a file of n well-formed templates
PlainFile(n) == FileOf([k \in 1..n |-> SiteLine(k)])

\* files with a comment, a blank line, an indented line, an indented comment, a
\* template with a named slot
OddFiles ==
    { NoFile,
      FileOf(<< <<"#", " sites", "\n">>, <<"\n">>, SiteLine(1), <<" ", "\n">> >>),
      FileOf(<< <<" ">> \o SiteLine(1), SiteLine(2) >>),
      FileOf(<< <<" ", "#", " sites", "\n">>, SiteLine(1) >>),
      FileOf(<< SiteLine(1), <<"https://", "t.me", "/", "{username}", "\n">>,
                SiteLine(3) >>) }

Files == { PlainFile(n) : n \in 0..MaxSites } \cup OddFiles

IsSpace(tok) == tok \in {" ", "\n"}

\* str.strip()
RECURSIVE StripLine(_)
StripLine(ln) ==
    IF ln = <<>> THEN ln
    ELSE IF IsSpace(ln[1]) THEN StripLine(Tail(ln))
    ELSE IF IsSpace(ln[Len(ln)]) THEN StripLine(SubSeq(ln, 1, Len(ln) - 1))
    ELSE ln

\* line 261: the test a line passes to be kept
KeepLine(ln) == StripLine(ln) # <<>> /\ ~(ln # <<>> /\ ln[1] = "#")

\* line 261: the stripped lines that are kept, in order
RECURSIVE KeptLines(_)
KeptLines(lines) ==
    IF lines = <<>> THEN <<>>
    ELSE (IF KeepLine(Head(lines)) THEN <<StripLine(Head(lines))>> ELSE <<>>)
             \o KeptLines(Tail(lines))

\* lines 258-264
load_username_sites(f) == IF f.readable THEN KeptLines(f.lines) ELSE <<>>

\* line 275: pat.format(username) raises on a named slot or a lone brace
FormatRaises(pat) == \E n \in 1..Len(pat) : pat[n] \in {"{username}", "{"}

\* line 275: pat.format(username)
FormatSite(pat, name) == [n \in 1..Len(pat) |-> IF pat[n] = "{}" THEN name ELSE pat[n]]

\* the URLs of lines 274-276, for the sites from position n on
SiteUrls(sites, name) == [n \in 1..Len(sites) |-> FormatSite(sites[n], name)]

\* a URL httpx can send: client.get raises on any other, before any I/O
Sendable(url) == url # <<>> /\ url[1] \in {"https://", "http://"}

\* line 287: re.sub(r"^https?://(www\\.)?", "", u).split("/")[0]; the group
\* (www\\.)? asks for a backslash and so never takes the "www." of a host
RECURSIVE UpToSlash(_)
UpToSlash(url) ==
    IF url = <<>> \/ Head(url) = "/" THEN <<>>
    ELSE <<Head(url)>> \o UpToSlash(Tail(url))

DomainOf(url) ==
    UpToSlash(IF url # <<>> /\ url[1] \in {"https://", "http://"} THEN Tail(url) ELSE url)

\* ProbeOk without the scan for negative hints
ProbeOk_StatusOnly(r) == r.status < 400

\* lines 293-301: the flag _probe returns for a response
ProbeOk(r) == r.status < 400 /\ ~AnyHint(LoweredText(r), NEGATIVE_HINTS)

OutLine(kind, txt) == [kind |-> kind, text |-> txt]

\* lines 278-279, 282, 286-287: the entries of one part, in the order of `results`
RECURSIVE PartLines(_, _)
PartLines(results, wanted) ==
    IF results = <<>> THEN <<>>
    ELSE (IF Head(results).ok = wanted
          THEN <<IF wanted THEN OutLine("found", Head(results).url)
                 ELSE OutLine("missing", DomainOf(Head(results).url))>>
          ELSE <<>>)
             \o PartLines(Tail(results), wanted)

\* Render giving the "nothing confirmed" line whenever no site was found
Render_NothingWhenNoneFound(results) ==
    LET found == PartLines(results, TRUE)
        missing == PartLines(results, FALSE)
        lines == (IF found # <<>> THEN <<OutLine("found-header", <<>>)>> \o found ELSE <<>>)
                 \o (IF missing # <<>> THEN <<OutLine("missing-header", <<>>)>> \o missing
                     ELSE <<>>)
    IN  IF found # <<>> THEN lines ELSE <<OutLine("nothing-confirmed", <<>>)>>

\* lines 278-288: the lines rendered from `results`
Render(results) ==
    LET found == PartLines(results, TRUE)
        missing == PartLines(results, FALSE)
        lines == (IF found # <<>> THEN <<OutLine("found-header", <<>>)>> \o found ELSE <<>>)
                 \o (IF missing # <<>> THEN <<OutLine("missing-header", <<>>)>> \o missing
                     ELSE <<>>)
    IN  IF lines # <<>> THEN lines ELSE <<OutLine("nothing-confirmed", <<>>)>>

\* the responses a site may give to one probe
UserReplies ==
    { PlainReply,
      Reply(200, "Error 404"),
      Reply(200, "pad+Not Found"),
      Reply(200, "<unreadable>"),
      Reply(404, "Welcome") }

\* the exceptions an awaited probe request may raise
UserExceptions == {"ReadTimeout"}

InitUser ==
    /\ IdleVariants
    /\ IdlePhone
    /\ IdleEmail
    /\ IdleConv
    /\ username \in UserInputs
    /\ file \in Files
    /\ u_pc = "start"
    /\ u_client = "none"
    /\ u_urls = <<>>
    /\ u_probe = <<>>
    /\ u_reply = <<>>
    /\ u_results = <<>>
    /\ u_out = <<>>
    /\ u_odd = 0

Sites == load_username_sites(file)

\* the position of the first template whose format raises, 0 if none does
FirstBadSite ==
    IF \E n \in 1..Len(Sites) : FormatRaises(Sites[n])
    THEN CHOOSE n \in 1..Len(Sites) :
            /\ FormatRaises(Sites[n])
            /\ \A k \in 1..(n - 1) : ~FormatRaises(Sites[k])
    ELSE 0

\* lines 267-276: the sites are loaded, the client opened, one task made per site
UserCreateTasks ==
    /\ u_pc = "start"
    /\ FirstBadSite = 0
    /\ u_client' = "open"
    /\ u_urls' = SiteUrls(Sites, normalize_username(username))
    /\ u_probe' = [n \in 1..Len(Sites) |-> "created"]
    /\ u_reply' = [n \in 1..Len(Sites) |-> NoEvent]
    /\ u_pc' = "gather"
    /\ UNCHANGED <<username, file, u_results, u_out, u_odd>>
    /\ UNCHANGED <<vvars, pvars, evars, cvars>>

\* lines 267-275: pat.format raises inside the loop; the exception leaves the
\* `async with`, which closes the client, and leaves username_check
UserFormatRaises ==
    /\ u_pc = "start"
    /\ FirstBadSite # 0
    /\ u_client' = "closed"
    /\ u_urls' = SiteUrls(SubSeq(Sites, 1, FirstBadSite - 1), normalize_username(username))
    /\ u_probe' = [n \in 1..(FirstBadSite - 1) |-> "created"]
    /\ u_reply' = [n \in 1..(FirstBadSite - 1) |-> NoEvent]
    /\ u_pc' = "raised"
    /\ UNCHANGED <<username, file, u_results, u_out, u_odd>>
    /\ UNCHANGED <<vvars, pvars, evars, cvars>>

\* line 292: a task sends its GET and awaits the response
ProbeSend(n) ==
    /\ u_pc = "gather"
    /\ u_probe[n] = "created"
    /\ Sendable(u_urls[n])
    /\ u_probe' = [u_probe EXCEPT ![n] = "sent"]
    /\ UNCHANGED <<username, file, u_pc, u_client, u_urls, u_reply, u_results, u_out, u_odd>>
    /\ UNCHANGED <<vvars, pvars, evars, cvars>>

\* lines 292, 302-303: client.get refuses the URL, the task returns (url, False)
ProbeRefuse(n) ==
    /\ u_pc = "gather"
    /\ u_probe[n] = "created"
    /\ ~Sendable(u_urls[n])
    /\ u_probe' = [u_probe EXCEPT ![n] = "done"]
    /\ u_reply' = [u_reply EXCEPT ![n] = Event("raise", Reply(0, ""), "UnsupportedProtocol")]
    /\ UNCHANGED <<username, file, u_pc, u_client, u_urls, u_results, u_out, u_odd>>
    /\ UNCHANGED <<vvars, pvars, evars, cvars>>

\* lines 292-301: the response of a task arrives, the task returns (url, ok)
ProbeReply(n, r) ==
    /\ u_pc = "gather"
    /\ u_probe[n] = "sent"
    /\ r = PlainReply \/ u_odd < MaxOddProbes
    /\ u_odd' = IF r = PlainReply THEN u_odd ELSE u_odd + 1
    /\ u_probe' = [u_probe EXCEPT ![n] = "done"]
    /\ u_reply' = [u_reply EXCEPT ![n] = Event("reply", r, "")]
    /\ UNCHANGED <<username, file, u_pc, u_client, u_urls, u_results, u_out>>
    /\ UNCHANGED <<vvars, pvars, evars, cvars>>

\* lines 292, 302-303: the await of a task raises, the task returns (url, False)
ProbeRaise(n, x) ==
    /\ u_pc = "gather"
    /\ u_probe[n] = "sent"
    /\ u_odd < MaxOddProbes
    /\ u_odd' = u_odd + 1
    /\ u_probe' = [u_probe EXCEPT ![n] = "done"]
    /\ u_reply' = [u_reply EXCEPT ![n] = Event("raise", Reply(0, ""), x)]
    /\ UNCHANGED <<username, file, u_pc, u_client, u_urls, u_results, u_out>>
    /\ UNCHANGED <<vvars, pvars, evars, cvars>>

\* what a finished task returned: (url, ok)
TaskResult(n) ==
    [url |-> u_urls[n],
     ok |-> u_reply[n].kind = "reply"
            /\ ProbeOk(Reply(u_reply[n].status, u_reply[n].content))]

\* UserJoin with `out` a module-level list that email_check appends to as well
UserJoin_SharedOut ==
    /\ u_pc = "gather"
    /\ \A n \in 1..Len(u_probe) : u_probe[n] = "done"
    /\ u_results' = [n \in 1..Len(u_probe) |-> TaskResult(n)]
    /\ u_out' = e_out \o Render([n \in 1..Len(u_probe) |-> TaskResult(n)])
    /\ u_client' = "closed"
    /\ u_pc' = "done"
    /\ UNCHANGED <<username, file, u_urls, u_probe, u_reply, u_odd>>
    /\ UNCHANGED <<vvars, pvars, evars, cvars>>

\* lines 277-288: every task is done, gather returns their results in task order,
\* the client is closed, the lines are rendered and returned
UserJoin ==
    /\ u_pc = "gather"
    /\ \A n \in 1..Len(u_probe) : u_probe[n] = "done"
    /\ u_results' = [n \in 1..Len(u_probe) |-> TaskResult(n)]
    /\ u_out' = Render([n \in 1..Len(u_probe) |-> TaskResult(n)])
    /\ u_client' = "closed"
    /\ u_pc' = "done"
    /\ UNCHANGED <<username, file, u_urls, u_probe, u_reply, u_odd>>
    /\ UNCHANGED <<vvars, pvars, evars, cvars>>

NextUser ==
    \/ UserCreateTasks
    \/ UserFormatRaises
    \/ \E n \in 1..Len(u_probe) : ProbeSend(n)
    \/ \E n \in 1..Len(u_probe) : ProbeRefuse(n)
    \/ \E n \in 1..Len(u_probe), r \in UserReplies : ProbeReply(n, r)
    \/ \E n \in 1..Len(u_probe), x \in UserExceptions : ProbeRaise(n, x)
    \/ UserJoin

SpecUser == InitUser /\ [][NextUser]_vars

----------------------------------------------------------------------------
(* The validators of the conversation                                       *)
(*                                                                          *)
(* A message text is named by its characters; CharsOf gives them one by     *)
(* one, so that the two regular expressions are evaluated as written.       *)

\* a name of 31 characters
LongName == "xxxxxxxxxxxxxxxxxxxxxxxxxxxxxxx"

CharsOf(s) ==
    CASE s = "user@example.com" -> <<"u", "s", "e", "r", "@", "e", "x", "a", "m", "p", "l", "e", ".", "c", "o", "m">>
      [] s = "user@officeapps.live" -> <<"u", "s", "e", "r", "@", "o", "f", "f", "i", "c", "e", "a", "p", "p", "s", ".", "l", "i", "v", "e">>
      [] s = "a.b+c@sub.example.co" -> <<"a", ".", "b", "+", "c", "@", "s", "u", "b", ".", "e", "x", "a", "m", "p", "l", "e", ".", "c", "o">>
      [] s = "not-an-email" -> <<"n", "o", "t", "-", "a", "n", "-", "e", "m", "a", "i", "l">>
      [] s = "@example.com" -> <<"@", "e", "x", "a", "m", "p", "l", "e", ".", "c", "o", "m">>
      [] s = "a@b" -> <<"a", "@", "b">>
      [] s = "user@example.c0m" -> <<"u", "s", "e", "r", "@", "e", "x", "a", "m", "p", "l", "e", ".", "c", "0", "m">>
      [] s = "john" -> <<"j", "o", "h", "n">>
      [] s = "jo" -> <<"j", "o">>
      [] s = "@john" -> <<"@", "j", "o", "h", "n">>
      [] s = "john doe" -> <<"j", "o", "h", "n", " ", "d", "o", "e">>
      [] s = "+966501234567" -> <<"+", "9", "6", "6", "5", "0", "1", "2", "3", "4", "5", "6", "7">>
      [] s = "0501234567" -> <<"0", "5", "0", "1", "2", "3", "4", "5", "6", "7">>
      [] s = "+9660501234567" -> <<"+", "9", "6", "6", "0", "5", "0", "1", "2", "3", "4", "5", "6", "7">>
      [] s = "a-" -> <<"a", "-">>
      [] s = "966" -> <<"9", "6", "6">>
      [] s = "5012345" -> <<"5", "0", "1", "2", "3", "4", "5">>
      [] s = "@jo" -> <<"@", "j", "o">>
      [] s = "@@john" -> <<"@", "@", "j", "o", "h", "n">>
      [] s = LongName -> [n \in 1..31 |-> "x"]
      [] OTHER -> <<>>
Letters ==
    { "a", "b", "c", "d", "e", "f", "g", "h", "i", "j", "k", "l", "m", "n", "o", "p", "q", "r", "s", "t", "u", "v", "w", "x", "y", "z",
      "A", "B", "C", "D", "E", "F", "G", "H", "I", "J", "K", "L", "M", "N", "O", "P", "Q", "R", "S", "T", "U", "V", "W", "X", "Y", "Z" }

\* line 75: the classes [A-Z0-9._%+-] and [A-Z0-9.-] under re.I
LocalChars == Letters \cup AsciiDigits \cup {".", "_", "%", "+", "-"}

DomainChars == Letters \cup AsciiDigits \cup {".", "-"}

\* line 75: fullmatch of [A-Z0-9._%+-]+@[A-Z0-9.-]+\.[A-Z]{2,}: some "@" at
\* position a and some "." at position d split the text as the pattern asks
EmailMatch(c) ==
    \E a \in 1..Len(c), d \in 1..Len(c) :
        /\ c[a] = "@"
        /\ a > 1
        /\ \A n \in 1..(a - 1) : c[n] \in LocalChars
        /\ d > a + 1
        /\ c[d] = "."
        /\ \A n \in (a + 1)..(d - 1) : c[n] \in DomainChars
        /\ Len(c) - d >= 2
        /\ \A n \in (d + 1)..Len(c) : c[n] \in Letters

\* lines 74-75
is_email(s) == EmailMatch(CharsOf(s))

\* line 84: the class [A-Za-z0-9_\.]
NameChars == Letters \cup AsciiDigits \cup {"_", "."}

\* lines 82-84: fullmatch of [A-Za-z0-9_\.]{3,30} on the normalized name
is_username(s) ==
    LET c == CharsOf(normalize_username(s))
    IN  /\ 3 <= Len(c)
        /\ Len(c) <= 30
        /\ \A n \in 1..Len(c) : c[n] \in NameChars

\* str.startswith("@")
StartsWithAt(s) == CharsOf(s) # <<>> /\ CharsOf(s)[1] = "@"

\* the address as the tokens the URL templates are filled with
EmailTokensOf(s) ==
    IF s = "user@officeapps.live" THEN <<"user@", "officeapps.live">> ELSE <<s>>

----------------------------------------------------------------------------
(* The conversation: build_app and its handlers                             *)
(*                                                                          *)
(* Updates are dispatched one at a time: a handler that awaits a check      *)
(* holds the conversation until the check has returned or raised.  The      *)
(* locals of a check are discarded when its handler is left.                *)

\* lines 307-313: the callback data of the three buttons of main_menu
MenuChoices == {"email", "phone", "user"}

\* the texts a chat may send in each input state
EmailTexts ==
    { "user@example.com", " user@officeapps.live ", "a.b+c@sub.example.co",
      "not-an-email", "@example.com", "a@b", "user@example.c0m" }

PhoneTexts ==
    { "+966501234567", " 0501234567 ", "+9660501234567", "a-", "966", "5012345" }

UserTexts == { "john", " @john ", "@jo", "@@john", "jo", "john doe", LongName }

\* what Link_all.txt may hold when username_check reads it
ConvFiles ==
    { NoFile,
      PlainFile(2),
      FileOf(<< <<" ", "#", " sites", "\n">>, SiteLine(1) >>),
      FileOf(<< SiteLine(1), <<"https://", "t.me", "/", "{username}", "\n">>,
                SiteLine(3) >>) }

InitConv ==
    /\ IdleVariants
    /\ IdlePhone
    /\ IdleEmail
    /\ IdleUser
    /\ IdleConv

\* the locals of a check are gone once the handler that awaited it is left
DiscardEmail ==
    /\ email' = <<>>
    /\ e_pc' = "idle"
    /\ e_i' = 0
    /\ e_client' = "none"
    /\ e_out' = <<>>
    /\ e_reqs' = <<>>
    /\ e_last' = NoEvent
    /\ e_odd' = 0

DiscardPhone ==
    /\ raw' = <<>>
    /\ p_pc' = "idle"
    /\ p_variants' = <<>>
    /\ p_i' = 0
    /\ p_client' = "none"
    /\ p_reqs' = <<>>
    /\ p_replies' = <<>>
    /\ p_result' = <<>>
    /\ p_decoded' = <<>>

DiscardUser ==
    /\ username' = ""
    /\ file' = <<>>
    /\ u_pc' = "idle"
    /\ u_client' = "none"
    /\ u_urls' = <<>>
    /\ u_probe' = <<>>
    /\ u_reply' = <<>>
    /\ u_results' = <<>>
    /\ u_out' = <<>>
    /\ u_odd' = 0

\* lines 315-317, entry point of line 373: /start when the chat has no conversation
start ==
    /\ c_pc = "idle"
    /\ c_state = END
    /\ c_from' = c_state
    /\ c_handler' = "start"
    /\ c_text' = "/start"
    /\ c_reply' = <<"menu">>
    /\ c_check' = "none"
    /\ c_state' = CHOOSING
    /\ UNCHANGED c_pc
    /\ UNCHANGED <<vvars, pvars, evars, uvars>>

\* lines 319-331, dispatched by line 375: a button of the menu is pressed
on_menu(choice) ==
    /\ c_pc = "idle"
    /\ c_state = CHOOSING
    /\ c_from' = c_state
    /\ c_handler' = "on_menu"
    /\ c_text' = choice
    /\ c_check' = "none"
    /\ c_reply' = IF choice = "email" THEN <<"ask-email">>
                  ELSE IF choice = "phone" THEN <<"ask-phone">>
                  ELSE <<"ask-user">>
    /\ c_state' = IF choice = "email" THEN INPUT_EMAIL
                  ELSE IF choice = "phone" THEN INPUT_PHONE
                  ELSE INPUT_USER
    /\ UNCHANGED c_pc
    /\ UNCHANGED <<vvars, pvars, evars, uvars>>

\* lines 333-337, dispatched by line 376: the text is no address, retry prompt
handle_email_retry(txt) ==
    /\ c_pc = "idle"
    /\ c_state = INPUT_EMAIL
    /\ ~is_email(Strip(txt))
    /\ c_from' = c_state
    /\ c_handler' = "handle_email"
    /\ c_text' = txt
    /\ c_check' = "none"
    /\ c_reply' = <<"retry-email">>
    /\ c_state' = INPUT_EMAIL
    /\ UNCHANGED c_pc
    /\ UNCHANGED <<vvars, pvars, evars, uvars>>

\* lines 333-339: the text is an address, email_check is called and awaited
handle_email_check(txt) ==
    /\ c_pc = "idle"
    /\ c_state = INPUT_EMAIL
    /\ is_email(Strip(txt))
    /\ c_from' = c_state
    /\ c_handler' = "handle_email"
    /\ c_text' = txt
    /\ c_check' = "email"
    /\ c_reply' = <<"checking">>
    /\ c_pc' = "await"
    /\ email' = EmailTokensOf(Strip(txt))
    /\ e_pc' = "start"
    /\ UNCHANGED <<c_state, e_i, e_client, e_out, e_reqs, e_last, e_odd>>
    /\ UNCHANGED <<vvars, pvars, uvars>>

\* lines 339-342: email_check has returned, the lines and the menu are sent
handle_email_done ==
    /\ c_pc = "await"
    /\ c_check = "email"
    /\ e_pc = "done"
    /\ c_reply' = c_reply \o <<"result", "menu">>
    /\ c_state' = CHOOSING
    /\ c_pc' = "idle"
    /\ DiscardEmail
    /\ UNCHANGED <<c_from, c_handler, c_check, c_text>>
    /\ UNCHANGED <<vvars, pvars, uvars>>

\* lines 345-347, dispatched by line 377: any text, phone_check is called and awaited
handle_phone_check(txt) ==
    /\ c_pc = "idle"
    /\ c_state = INPUT_PHONE
    /\ c_from' = c_state
    /\ c_handler' = "handle_phone"
    /\ c_text' = txt
    /\ c_check' = "phone"
    /\ c_reply' = <<>>
    /\ c_pc' = "await"
    /\ raw' = CharsOf(Strip(txt))
    /\ p_pc' = "start"
    /\ UNCHANGED <<c_state, p_variants, p_i, p_client, p_reqs, p_replies, p_result, p_decoded>>
    /\ UNCHANGED <<vvars, evars, uvars>>

\* lines 347-351: phone_check has returned, the name or a dash and the menu are sent
handle_phone_done ==
    /\ c_pc = "await"
    /\ c_check = "phone"
    /\ p_pc = "done"
    /\ c_reply' = <<IF p_result # <<>> /\ p_result[1] # "" THEN "name" ELSE "dash", "menu">>
    /\ c_state' = CHOOSING
    /\ c_pc' = "idle"
    /\ DiscardPhone
    /\ UNCHANGED <<c_from, c_handler, c_check, c_text>>
    /\ UNCHANGED <<vvars, evars, uvars>>
\* lines 354-358, dispatched by line 378: the text is no username and does not
\* begin with "@", retry prompt
handle_user_retry(txt) ==
    /\ c_pc = "idle"
    /\ c_state = INPUT_USER
    /\ ~is_username(Strip(txt)) /\ ~StartsWithAt(Strip(txt))
    /\ c_from' = c_state
    /\ c_handler' = "handle_user"
    /\ c_text' = txt
    /\ c_check' = "none"
    /\ c_reply' = <<"retry-user">>
    /\ c_state' = INPUT_USER
    /\ UNCHANGED c_pc
    /\ UNCHANGED <<vvars, pvars, evars, uvars>>

\* lines 354-360: the test of line 356 lets the text through, username_check is
\* called and awaited; it reads Link_all.txt as it is then
handle_user_check(txt) ==
    /\ c_pc = "idle"
    /\ c_state = INPUT_USER
    /\ ~(~is_username(Strip(txt)) /\ ~StartsWithAt(Strip(txt)))
    /\ c_from' = c_state
    /\ c_handler' = "handle_user"
    /\ c_text' = txt
    /\ c_check' = "user"
    /\ c_reply' = <<"checking">>
    /\ c_pc' = "await"
    /\ username' = Strip(txt)
    /\ file' \in ConvFiles
    /\ u_pc' = "start"
    /\ UNCHANGED <<c_state, u_client, u_urls, u_probe, u_reply, u_results, u_out, u_odd>>
    /\ UNCHANGED <<vvars, pvars, evars>>

\* lines 360-363: username_check has returned, the lines and the menu are sent
handle_user_done ==
    /\ c_pc = "await"
    /\ c_check = "user"
    /\ u_pc = "done"
    /\ c_reply' = c_reply \o <<"result", "menu">>
    /\ c_state' = CHOOSING
    /\ c_pc' = "idle"
    /\ DiscardUser
    /\ UNCHANGED <<c_from, c_handler, c_check, c_text>>
    /\ UNCHANGED <<vvars, pvars, evars>>

\* line 360: username_check has raised; the exception leaves handle_user, which
\* returns no state, so the chat stays where it was (on_error, lines 387-390,
\* prints the traceback)
handle_user_raised ==
    /\ c_pc = "await"
    /\ c_check = "user"
    /\ u_pc = "raised"
    /\ c_pc' = "idle"
    /\ DiscardUser
    /\ UNCHANGED <<c_state, c_from, c_handler, c_check, c_text, c_reply>>
    /\ UNCHANGED <<vvars, pvars, evars>>

\* lines 365-367, fallback of line 380: /cancel in any state of the conversation
cancel ==
    /\ c_pc = "idle"
    /\ c_state # END
    /\ c_from' = c_state
    /\ c_handler' = "cancel"
    /\ c_text' = "/cancel"
    /\ c_check' = "none"
    /\ c_reply' = <<"cancelled">>
    /\ c_state' = END
    /\ UNCHANGED c_pc
    /\ UNCHANGED <<vvars, pvars, evars, uvars>>

NextConv ==
    \/ start
    \/ \E choice \in MenuChoices : on_menu(choice)
    \/ \E txt \in EmailTexts : handle_email_retry(txt)
    \/ \E txt \in EmailTexts : handle_email_check(txt)
    \/ handle_email_done
    \/ \E txt \in PhoneTexts : handle_phone_check(txt)
    \/ handle_phone_done
    \/ \E txt \in UserTexts : handle_user_retry(txt)
    \/ \E txt \in UserTexts : handle_user_check(txt)
    \/ handle_user_done
    \/ handle_user_raised
    \/ NextEmail
    \/ NextPhone
    \/ NextUser
    \/ cancel

SpecConv == InitConv /\ [][NextConv]_vars

----------------------------------------------------------------------------
(* Checks run at the same time                                              *)
(*                                                                          *)
(* Two of the three checks are called by different callers and interleave   *)
(* at their awaits; each one takes its steps as it does alone.              *)

Checks == {"email", "phone", "user"}

\* the responses each check may meet here
ConcPhoneResponses == { Resp("utf-8", "{name:Ali}"), Resp("utf-8", "{status:ok}") }

ConcUserReplies == { PlainReply, Reply(404, "Welcome") }

InitConcurrent ==
    /\ IdleVariants
    /\ IdleConv
    /\ \E resting \in Checks :
          /\ IF resting = "phone" THEN raw = <<>> /\ p_pc = "idle"
             ELSE raw = <<"+", "9", "6", "6">> \o Local9 /\ p_pc = "start"
          /\ IF resting = "email" THEN email = <<>> /\ e_pc = "idle"
             ELSE email = <<"user@example.com">> /\ e_pc = "start"
          /\ IF resting = "user" THEN username = "" /\ file = <<>> /\ u_pc = "idle"
             ELSE username = "@john" /\ file = PlainFile(2) /\ u_pc = "start"
    /\ p_variants = <<>>
    /\ p_i = 0
    /\ p_client = "none"
    /\ p_reqs = <<>>
    /\ p_replies = <<>>
    /\ p_result = <<>>
    /\ p_decoded = <<>>
    /\ e_i = 0
    /\ e_client = "none"
    /\ e_out = <<>>
    /\ e_reqs = <<>>
    /\ e_last = NoEvent
    /\ e_odd = 0
    /\ u_client = "none"
    /\ u_urls = <<>>
    /\ u_probe = <<>>
    /\ u_reply = <<>>
    /\ u_results = <<>>
    /\ u_out = <<>>
    /\ u_odd = 0

NextConcurrent ==
    \/ PhoneOpen
    \/ PhoneRequest
    \/ PhoneRaise
    \/ \E r \in ConcPhoneResponses : PhoneHit(r)
    \/ \E r \in ConcPhoneResponses : PhoneMiss(r)
    \/ PhoneExhausted
    \/ EmailOpen
    \/ EmailSkip
    \/ EmailSend
    \/ EmailRaise("ConnectTimeout")
    \/ EmailReply(PlainReply)
    \/ EmailReturn
    \/ UserCreateTasks
    \/ \E n \in 1..Len(u_probe) : ProbeSend(n)
    \/ \E n \in 1..Len(u_probe), r \in ConcUserReplies : ProbeReply(n, r)
    \/ \E n \in 1..Len(u_probe), x \in UserExceptions : ProbeRaise(n, x)
    \/ UserJoin

SpecConcurrent == InitConcurrent /\ [][NextConcurrent]_vars

----------------------------------------------------------------------------
(* Claims about build_sa_variants *)

PlusCC == <<"+", "9", "6", "6">>

EndsWith(s, p) == Len(s) >= Len(p) /\ SubSeq(s, Len(s) - Len(p) + 1, Len(s)) = p

\* a local number: 8 or 9 ASCII digits, the first of them not 0
IsLocalNumber(c) ==
    /\ Len(c) \in {8, 9}
    /\ \A i \in 1..Len(c) : c[i] \in AsciiDigits
    /\ c[1] # "0"

ThreeForms(c) == <<c, <<"0">> \o c, CC \o c>>

\* C1: for a local number c of 8 or 9 digits not starting with 0, the international
\* input "+966"+c and the local input "0"+c both give exactly [c, "0"+c, "966"+c].
C1_ThreeFormsOfLocalNumber ==
    vpc = "done" =>
        /\ (StartsWith(text, PlusCC) /\ IsLocalNumber(Drop(text, 4)))
               => out = ThreeForms(Drop(text, 4))
        /\ (StartsWith(text, <<"0">>) /\ IsLocalNumber(Drop(text, 1)))
               => out = ThreeForms(Drop(text, 1))

\* C1 witness: build_sa_variants has run on "+966" followed by a 9-digit local number
\* and returned three variants.
C1_Witness ==
    /\ vpc = "done"
    /\ StartsWith(text, PlusCC)
    /\ IsLocalNumber(Drop(text, 4))
    /\ Len(Drop(text, 4)) = 9
    /\ Len(out) = 3

\* the local part of an input: its digits less a leading 00, less the country code
\* when they begin with it, less leading zeros
LocalPart(t) ==
    LET d == Normalized(t)
    IN  LStrip0(IF StartsWith(d, CC) THEN Drop(d, 3) ELSE d)

\* 1: local form without leading zero; 2: local form with one leading zero;
\* 3: country code form; 0: none of the three
FormRank(v, t) ==
    LET l == LocalPart(t)
    IN  IF v = l THEN 1
        ELSE IF v = <<"0">> \o l THEN 2
        ELSE IF StartsWith(v, CC) /\ EndsWith(v, l) /\ Len(v) > Len(l) THEN 3
        ELSE 0

\* C2: every returned variant has 8 to 12 digits, none occurs twice, and the variants
\* come in generation order: local without leading zero, local with leading zero,
\* country code form.
C2_VariantInvariant ==
    vpc = "done" =>
        /\ \A i \in 1..Len(out) :
              /\ Len(out[i]) >= 8 /\ Len(out[i]) <= 12
              /\ \A k \in 1..Len(out[i]) : IsDigit(out[i][k])
              /\ FormRank(out[i], text) # 0
        /\ \A i, j \in 1..Len(out) :
              i < j => /\ out[i] # out[j]
                       /\ FormRank(out[i], text) < FormRank(out[j], text)

\* C2 witness: three variants were generated and the filter kept two of them
C2_Witness ==
    /\ vpc = "done"
    /\ Len(variants) = 3
    /\ Len(out) = 2

----------------------------------------------------------------------------
(* Claims about phone_check *)

\* a reply from which a name is extracted
YieldsName(reply) == reply # TransportError /\ NameOf(reply) # NoName

\* C3: the variants are requested one at a time in list order; the first reply that
\* yields a name ends the check with exactly that name, no later variant is
\* requested, and the result never has more than one element.
C3_FirstHitWins ==
    /\ Len(p_result) <= 1
    /\ Len(p_reqs) <= Len(p_variants)
    /\ \A k \in 1..Len(p_reqs) : p_reqs[k].number = p_variants[k]
    /\ Len(p_replies) <= Len(p_reqs)
    /\ Len(p_reqs) <= Len(p_replies) + 1
    /\ \A k \in 1..Len(p_replies) :
          YieldsName(p_replies[k]) =>
              /\ k = Len(p_reqs)
              /\ p_pc = "done"
              /\ p_result = <<NameOf(p_replies[k])>>
              /\ \A j \in 1..(k - 1) : ~YieldsName(p_replies[j])
    /\ (p_pc = "done" /\ p_result # <<>>) =>
          /\ p_replies # <<>>
          /\ YieldsName(p_replies[Len(p_replies)])

\* C3 witness: of three variants the first gave no name and the second gave one;
\* the check is over and the third variant was never requested.
C3_Witness ==
    /\ p_pc = "done"
    /\ Len(p_variants) = 3
    /\ Len(p_reqs) = 2
    /\ ~YieldsName(p_replies[1])
    /\ p_result = <<NameOf(p_replies[2])>>

\* C4: an input with no variant makes phone_check return [] with no client opened
\* and no request issued.
C4_NoVariantsNoRequest ==
    (p_pc # "start" /\ build_sa_variants(raw) = <<>>) =>
        /\ p_pc = "done"
        /\ p_result = <<>>
        /\ p_client = "none"
        /\ p_reqs = <<>>

\* C4 witness: phone_check has returned on an input without any digit
C4_Witness ==
    /\ p_pc = "done"
    /\ raw # <<>>
    /\ _digits(raw) = <<>>
    /\ p_result = <<>>
    /\ p_client = "none"

----------------------------------------------------------------------------
(* Claims about email_check *)

LastLine == e_out[Len(e_out)]

LastReply == Reply(e_last.status, e_last.content)

LastUrl == e_reqs[Len(e_reqs)].url

\* C5: email_check records exactly one line per target, in table order, whatever
\* each target met; a target whose request raised gets an ERROR line naming the
\* exception type, and the targets after it are still processed.
C5_OneLinePerTarget ==
    /\ e_pc \in {"loop", "await"} => Len(e_out) = e_i - 1
    /\ e_pc = "done" => Len(e_out) = Len(EMAIL_ENDPOINTS)
    /\ \A k \in 1..Len(e_out) : e_out[k].site = EMAIL_ENDPOINTS[k].site
    /\ e_last.kind = "raise" =>
          /\ e_out # <<>>
          /\ LastLine.verdict = "ERROR"
          /\ LastLine.exc = e_last.exc

\* C5 witness: email_check has returned thirteen lines although the requests of
\* its first and of its fourth target raised
C5_Witness ==
    /\ e_pc = "done"
    /\ Len(e_out) = 13
    /\ e_out[1].verdict = "ERROR" /\ e_out[1].exc = "ConnectTimeout"
    /\ e_out[4].verdict = "ERROR" /\ e_out[4].exc = "ConnectError"
    /\ e_out[5].verdict = "EXISTS"

UnsupportedSites == {"TikTok (mobile)", "Snapchat (merlin login)"}

\* C6: the two unsupported targets get a SKIPPED line and no request is ever
\* issued to them.
C6_UnsupportedSkipped ==
    /\ \A k \in 1..Len(e_reqs) : e_reqs[k].site \notin UnsupportedSites
    /\ \A k \in 1..Len(e_out) :
          EMAIL_ENDPOINTS[k].site \in UnsupportedSites => e_out[k].verdict = "SKIPPED"

\* C6 witness: email_check has returned, both unsupported targets are SKIPPED, a
\* target before them raised and eleven requests were issued
C6_Witness ==
    /\ e_pc = "done"
    /\ e_out[3].verdict = "SKIPPED"
    /\ e_out[13].verdict = "SKIPPED"
    /\ e_out[2].verdict = "ERROR"
    /\ Len(e_reqs) = 11

BespokeSites == {"Microsoft (officeapps.live)", "Twitter"}

\* the phrases the claim names, with those of the code's own list
ClaimedHints ==
    <<"not found", "no account", "does not exist", "unknown email", "404",
      "profile is unavailable", "invalid email">>

GenericVerdict(status, toks, hints) ==
    IF status < 400 /\ ~AnyHint(toks, hints) THEN "EXISTS" ELSE "ABSENT"

\* C7 as stated: for a target without a bespoke rule the verdict is EXISTS iff the
\* status is below 400 and the lower-cased first 2000 characters of the body
\* hold none of the negative phrases, "404" and "profile is unavailable" among
\* them; otherwise ABSENT.
C7_AsStated ==
    (e_last.kind = "reply" /\ LastLine.site \notin BespokeSites) =>
        LastLine.verdict =
            GenericVerdict(e_last.status, LoweredText(LastReply), ClaimedHints)

FivePhrases ==
    <<"invalid email", "no account", "not found", "does not exist", "unknown email">>

\* C7 amended: for a request whose formatted URL holds neither "officeapps.live"
\* nor "twitter.com/users/email_available", the verdict is EXISTS iff the status
\* is below 400 and the lower-cased first 2000 characters of the body hold none
\* of the five phrases "invalid email", "no account", "not found", "does not
\* exist", "unknown email"; otherwise ABSENT.  A 200 with "user not found" is
\* ABSENT, a 200 with none of the five (be it with "404") is EXISTS.
C7_GenericRule ==
    (/\ e_last.kind = "reply"
     /\ ~HasFragment(LastUrl, "officeapps.live")
     /\ ~HasFragment(LastUrl, "twitter.com/users/email_available")) =>
        /\ LastLine.verdict =
              GenericVerdict(e_last.status, LoweredText(LastReply), FivePhrases)
        /\ LastLine.rule = "generic"
        /\ (e_last.status = 200 /\ e_last.content = "User Not Found")
              => LastLine.verdict = "ABSENT"
        /\ (e_last.status = 200 /\ e_last.content = "Welcome")
              => LastLine.verdict = "EXISTS"

\* C7 witness: a target without a bespoke rule answered 200 with a body that
\* holds "404" and none of the five phrases, and was recorded as EXISTS
C7_Witness ==
    /\ e_last.kind = "reply"
    /\ LastLine.site = "Vimeo (forgot)"
    /\ e_last.status = 200
    /\ e_last.content = "Error 404"
    /\ LastLine.verdict = "EXISTS"

\* the response has the shape its provider's rule expects
ExpectedShape(site, r) ==
    LET j == JsonOf(r.content)
    IN  /\ j.t = "dict"
        /\ site = "Microsoft (officeapps.live)" => HasKey(j.items, "IfExistsResult")
        /\ site = "Twitter" => HasKey(j.items, "valid") /\ HasKey(j.items, "available")

\* C8: for Microsoft and Twitter, a response that is not JSON, not a JSON object,
\* or an object without the provider's field(s) is recorded as INCONCLUSIVE with
\* the raw status code, never as EXISTS or ABSENT.
C8_BespokeParseFailure ==
    (/\ e_last.kind = "reply"
     /\ LastLine.site \in BespokeSites
     /\ ~ExpectedShape(LastLine.site, LastReply)) =>
        /\ LastLine.verdict = "INCONCLUSIVE"
        /\ LastLine.status = e_last.status

----------------------------------------------------------------------------
(* Claims about username_check *)

\* target n answered with a status below 400 and no negative hint in the
\* lower-cased first 2000 characters of its body
AnsweredFound(n) ==
    /\ u_reply[n].kind = "reply"
    /\ u_reply[n].status < 400
    /\ ~AnyHint(LoweredText(Reply(u_reply[n].status, u_reply[n].content)), NEGATIVE_HINTS)

\* the targets 1..n that answered found (wanted) or did not (~wanted), in template order
RECURSIVE TargetsWhere(_, _)
TargetsWhere(n, wanted) ==
    IF n = 0 THEN <<>>
    ELSE TargetsWhere(n - 1, wanted) \o (IF AnsweredFound(n) = wanted THEN <<n>> ELSE <<>>)

IsFoundLine(l) == l.kind = "found"

IsMissingLine(l) == l.kind = "missing"

FoundPart == SelectSeq(u_out, IsFoundLine)

MissingPart == SelectSeq(u_out, IsMissingLine)

\* the targets, of the first n, that answered with the given reply
Answered(n, r) == {k \in 1..n : u_reply[k] = Event("reply", r, "")}

\* C9: whatever the order in which the probes are answered, the result lists as
\* found exactly the targets that answered below 400 without negative hint and
\* as not found all the others, each target once, each part in template order;
\* five templates of which three answer 200 and two 404 give 3 found, 2 not found.
C9_Partition ==
    u_pc = "done" =>
        LET n == Len(load_username_sites(file))
            f == TargetsWhere(n, TRUE)
            m == TargetsWhere(n, FALSE)
        IN  /\ Len(u_urls) = n
            /\ Len(FoundPart) = Len(f)
            /\ \A k \in 1..Len(f) : FoundPart[k].text = u_urls[f[k]]
            /\ Len(MissingPart) = Len(m)
            /\ \A k \in 1..Len(m) : MissingPart[k].text = DomainOf(u_urls[m[k]])
            /\ Len(FoundPart) + Len(MissingPart) = n
            /\ (/\ n = 5
                /\ Cardinality(Answered(n, PlainReply)) = 3
                /\ Cardinality(Answered(n, Reply(404, "Welcome"))) = 2)
                  => Len(FoundPart) = 3 /\ Len(MissingPart) = 2

\* C9 witness: of five templates the second and the fourth answered 404 and the
\* others 200 with a plain page; the result has three found and two not found
C9_Witness ==
    /\ u_pc = "done"
    /\ Len(u_urls) = 5
    /\ Answered(5, Reply(404, "Welcome")) = {2, 4}
    /\ Answered(5, PlainReply) = {1, 3, 5}
    /\ Len(FoundPart) = 3
    /\ Len(MissingPart) = 2

\* C10: an exception met for one target, while its request is built, sent or
\* read, makes that target not found and nothing else: username_check never
\* raises, and it returns only when every probe is done, with a result for each.
C10_ExceptionsStayLocal ==
    /\ u_pc # "raised"
    /\ u_pc = "done" =>
          /\ Len(u_results) = Len(load_username_sites(file))
          /\ \A n \in 1..Len(u_probe) : u_probe[n] = "done"
          /\ \A n \in 1..Len(u_results) :
                u_results[n].ok = AnsweredFound(n)

----------------------------------------------------------------------------
(* Claims about the international prefixes of build_sa_variants *)

ZeroZeroCC == <<"0", "0", "9", "6", "6">>

\* the same number written with the other international prefix
OtherPrefix(t) ==
    IF StartsWith(t, ZeroZeroCC) THEN PlusCC \o Drop(t, Len(ZeroZeroCC))
    ELSE IF StartsWith(t, PlusCC) THEN ZeroZeroCC \o Drop(t, Len(PlusCC))
    ELSE t

\* C14: an input written with the prefix 00966 yields the same output list
\* as the input with the same suffix written with the prefix +966, and the
\* other way round, whatever the suffix is.
C14_SamePrefixOutput ==
    (vpc = "done" /\ (StartsWith(text, ZeroZeroCC) \/ StartsWith(text, PlusCC)))
        => out = build_sa_variants(OtherPrefix(text))

\* a 00966 number with all three forms in its output
C14_Witness ==
    /\ vpc = "done"
    /\ StartsWith(text, ZeroZeroCC)
    /\ Len(out) = 3
    /\ build_sa_variants(PlusCC \o Drop(text, 5)) = out

\* the digits that follow the country code, once a leading "00" is dropped
RestOf(t) ==
    LET d == IF StartsWith(_digits(t), <<"0", "0">>)
             THEN Drop(_digits(t), 2) ELSE _digits(t)
    IN  IF StartsWith(d, CC) THEN Drop(d, 3) ELSE <<>>

\* the three candidates the claim names for a 966 number
ClaimedCandidates(t) ==
    { LStrip0(RestOf(t)), <<"0">> \o LStrip0(RestOf(t)), CC \o RestOf(t) }

InOutput(v) == \E n \in 1..Len(out) : out[n] = v

\* C17: for a number whose digits start with 966 followed by a non-empty
\* rest, each of the three candidates (the rest without leading zeros, that
\* value behind a single 0, 966 followed by the raw rest) that has 8 to 12
\* digits is in the output, whether or not the rest begins with 0.
C17_CandidatesOf966 ==
    (vpc = "done" /\ RestOf(text) # <<>>)
        => \A v \in ClaimedCandidates(text) :
              (8 <= Len(v) /\ Len(v) <= 12) => InOutput(v)

----------------------------------------------------------------------------
(* Claims about the loop of phone_check over the variants *)

\* the requests sent and not yet answered
InFlight == Len(p_reqs) - Len(p_replies)

\* C18: a variant whose request raises or whose response yields no name does
\* not end the check, which goes on with the next variant in order; there is
\* at most one request in flight, at most as many requests as variants (three
\* at most), and the empty list is returned only when every variant has been
\* tried without a name.
C18_FailuresGoOn ==
    /\ InFlight \in {0, 1}
    /\ Len(p_reqs) <= Len(p_variants)
    /\ Len(p_variants) <= 3
    /\ \A k \in 1..Len(p_reqs) : p_reqs[k].number = p_variants[k]
    /\ (p_pc = "loop" /\ p_i <= Len(p_variants)) =>
          /\ p_client = "open"
          /\ p_i = Len(p_replies) + 1
          /\ \A k \in 1..Len(p_replies) : ~YieldsName(p_replies[k])
    /\ (p_pc = "done" /\ p_result = <<>>) =>
          /\ Len(p_replies) = Len(p_variants)
          /\ \A k \in 1..Len(p_replies) : ~YieldsName(p_replies[k])

\* a failed request, then a response without a name, then a name from the third variant
C18_Witness ==
    /\ p_pc = "done"
    /\ Len(p_variants) = 3
    /\ Len(p_reqs) = 3
    /\ p_replies[1] = TransportError
    /\ p_replies[2] # TransportError
    /\ p_result # <<>>

----------------------------------------------------------------------------
(* Claims about the name a caller-id response yields *)

\* the first nested object, from position n, holding a name under one of the
\* five top-level keys
RECURSIVE ClaimedNestedName(_, _)
ClaimedNestedName(items, n) ==
    IF n > Len(items) THEN NoName
    ELSE IF items[n][2].t = "dict" /\ FirstName(items[n][2].items, TopKeys, 1) # NoName
         THEN FirstName(items[n][2].items, TopKeys, 1)
         ELSE ClaimedNestedName(items, n + 1)

\* the name the claim gives a response: the five keys at top level, then the
\* same five keys one level down, then the scan of the decoded text
ClaimedName(r) ==
    LET j == JsonOf(r.content)
        viaJson == IF j.t # "dict" THEN NoName
                   ELSE IF FirstName(j.items, TopKeys, 1) # NoName
                        THEN FirstName(j.items, TopKeys, 1)
                        ELSE ClaimedNestedName(j.items, 1)
        found == IF viaJson # NoName THEN viaJson
                 ELSE extract_name_from_text(_best_decode(r)[1])
    IN  IF r = TransportError \/ found = NoName \/ found = "" THEN NoName
        ELSE Unescape(found)

\* C16: the name of a JSON object response is the first non-empty string
\* under the keys name, Name, callerName, caller_name, caller at top level,
\* else under the same five keys in a nested object; a JSON name wins over the
\* text scan; a response is answered with a name exactly when one of the
\* strategies gives one.
C16_JsonNameKeys ==
    \A k \in 1..Len(p_replies) :
        ClaimedName(p_replies[k]) # NoName
            <=> /\ k = Len(p_replies)
                /\ p_pc = "done"
                /\ p_result = <<ClaimedName(p_replies[k])>>

----------------------------------------------------------------------------
(* Claims about _best_decode *)

\* the priority order the claim gives: the declared encoding if any, UTF-8, a
\* Latin-script Windows code page, the Arabic-script one, its ISO variant
ClaimedOrder(r) ==
    (IF r.encoding # "" THEN <<r.encoding>> ELSE <<>>)
        \o <<"utf-8", "cp1252", "cp1256", "iso-8859-6">>

\* the positions of an order whose decode attempt succeeds
Succeeds(r, order) ==
    {n \in 1..Len(order) : Decode(r.content, order[n]) # "<LookupError>"}

\* the first encoding of an order whose decode attempt succeeds
FirstSuccess(r, order) ==
    order[CHOOSE n \in Succeeds(r, order) : \A k \in Succeeds(r, order) : n <= k]

LastPhoneReply == p_replies[Len(p_replies)]

\* C19: for the response read last, _best_decode has returned (it never
\* raises) the text given by the first encoding of the claimed priority order
\* whose decode attempt succeeds, together with the name of that encoding.
C19_FirstDecodeThatSucceeds ==
    (p_pc \in {"loop", "done"} /\ p_replies # <<>> /\ LastPhoneReply # TransportError)
        => /\ Succeeds(LastPhoneReply, ClaimedOrder(LastPhoneReply)) # {}
           /\ p_decoded =
                <<Decode(LastPhoneReply.content,
                         FirstSuccess(LastPhoneReply, ClaimedOrder(LastPhoneReply))),
                  FirstSuccess(LastPhoneReply, ClaimedOrder(LastPhoneReply))>>

\* a response that declares a codec Python does not know: the lookup error is
\* caught and the body decoded as UTF-8
C19_Witness ==
    /\ p_pc = "done"
    /\ p_replies # <<>>
    /\ LastPhoneReply = Resp("bogus", "label-utf8")
    /\ p_decoded = <<"label: Mohammed Ahmed", "utf-8">>

----------------------------------------------------------------------------
(* Claims about the site list of username_check *)

NothingConfirmed == <<OutLine("nothing-confirmed", <<>>)>>

SaysNothingConfirmed ==
    \E n \in 1..Len(u_out) : u_out[n].kind = "nothing-confirmed"

\* C13: when the site-list file cannot be read, the site list is empty and
\* username_check makes no task and no request, does not raise and returns
\* the single "nothing confirmed" line; and that line is returned only when
\* the site list is empty.
C13_UnreadableSiteList ==
    /\ (u_pc # "idle" /\ ~file.readable) =>
          /\ load_username_sites(file) = <<>>
          /\ u_pc # "raised"
          /\ u_urls = <<>>
          /\ u_probe = <<>>
          /\ u_pc = "done" => u_out = NothingConfirmed
    /\ (u_pc = "done" /\ SaysNothingConfirmed) =>
          /\ load_username_sites(file) = <<>>
          /\ u_out = NothingConfirmed

\* username_check has returned with a file that could not be read
C13_Witness ==
    /\ u_pc = "done"
    /\ ~file.readable
    /\ u_client = "closed"
    /\ u_out = NothingConfirmed

----------------------------------------------------------------------------
(* Claims about the conversation *)

InputStates == {INPUT_EMAIL, INPUT_PHONE, INPUT_USER}

\* C11: a text that fails the validator of its input state (is_email,
\* is_username) is answered with the retry prompt, leaves the conversation in
\* that state and starts no check; email_check and username_check are started
\* only for texts that pass the validator.
C11_ValidatorsGate ==
    /\ c_check = "email" => is_email(Strip(c_text))
    /\ c_check = "user" => is_username(Strip(c_text))
    /\ (c_handler = "handle_email" /\ ~is_email(Strip(c_text))) =>
          /\ c_state = INPUT_EMAIL
          /\ c_reply = <<"retry-email">>
          /\ c_check = "none"
          /\ e_pc = "idle"
    /\ (c_handler = "handle_user" /\ ~is_username(Strip(c_text))) =>
          /\ c_state = INPUT_USER
          /\ c_reply = <<"retry-user">>
          /\ c_check = "none"
          /\ u_pc = "idle"

\* the clients of the three checks
NoClientOpen == e_client # "open" /\ p_client # "open" /\ u_client # "open"

\* C12: a check that has ended, by returning or by raising, has closed the
\* client it opened: after the last target of email_check, after the first hit
\* or the last variant of phone_check (which opens none when there is no
\* variant), after the join of username_check or the exception that leaves it;
\* and no client is open once the handler that awaited the check is left.
C12_ClientsClosed ==
    /\ e_pc = "done" => e_client = "closed"
    /\ p_pc = "done" => (p_client = "closed" \/ (p_client = "none" /\ p_reqs = <<>>))
    /\ u_pc \in {"done", "raised"} => u_client = "closed"
    /\ e_pc \in {"loop", "await"} => e_client = "open"
    /\ p_pc \in {"loop", "await"} => p_client = "open"
    /\ u_pc = "gather" => u_client = "open"
    /\ c_pc = "idle" => NoClientOpen

\* phone_check has returned a name before its last variant, its client closed
C12_Witness ==
    /\ c_pc = "await"
    /\ p_pc = "done"
    /\ p_result # <<>>
    /\ Len(p_reqs) < Len(p_variants)
    /\ p_client = "closed"

\* the input state a menu choice stands for
StateOfChoice(choice) ==
    IF choice = "email" THEN INPUT_EMAIL
    ELSE IF choice = "phone" THEN INPUT_PHONE
    ELSE INPUT_USER

\* the input state a check belongs to
StateOfCheck(check) ==
    IF check = "email" THEN INPUT_EMAIL
    ELSE IF check = "phone" THEN INPUT_PHONE
    ELSE INPUT_USER

\* C20: the conversation is in one of CHOOSING, INPUT_EMAIL, INPUT_PHONE,
\* INPUT_USER, END; a menu choice made in CHOOSING leads to the matching input
\* state; a handler that has run a check and is over has left the conversation
\* in CHOOSING, and the phone handler always runs its check; an input state is
\* left only for CHOOSING or, by cancel, for END; a check is started only from
\* its own input state.
C20_ConversationFlow ==
    /\ c_state \in {CHOOSING, END} \cup InputStates
    /\ c_handler = "on_menu" =>
          (c_from = CHOOSING /\ c_state = StateOfChoice(c_text))
    /\ (c_check # "none" /\ c_pc = "idle") => c_state = CHOOSING
    /\ c_handler = "handle_phone" => c_check = "phone"
    /\ (c_from \in InputStates /\ c_state # c_from) =>
          (c_state = CHOOSING \/ (c_state = END /\ c_handler = "cancel"))
    /\ c_check # "none" => c_from = StateOfCheck(c_check)

----------------------------------------------------------------------------
(* Claims about checks run at the same time *)

\* what phone_check returns alone for the responses it has met
PhoneResultAlone ==
    IF p_replies # <<>> /\ YieldsName(p_replies[Len(p_replies)])
    THEN <<NameOf(p_replies[Len(p_replies)])>>
    ELSE <<>>

\* what username_check returns alone for what its probes have met
UserResultAlone ==
    Render([n \in 1..Len(u_probe) |->
              [url |-> FormatSite(load_username_sites(file)[n], normalize_username(username)),
               ok |-> AnsweredFound(n)]])

====
